---- MODULE Spec2Model ----
(***************************************************************************)
(* Model of the AI web scraper backend: the OutputService renderers        *)
(* (text, Word, PDF, Excel), its cleanup sweep, and the /scrape and        *)
(* /download endpoints that drive them.                                    *)
(*                                                                         *)
(* The extracted data is a JSON value.  It is modelled as a tagged record  *)
(* [t, v]: t is the Python type ("str", "num", "bool", "null", "map",      *)
(* "list"); v is the payload.  A dict is a sequence of <<key, value>>      *)
(* pairs in insertion order, a list is a sequence of values.               *)
(***************************************************************************)
EXTENDS Integers, Sequences, FiniteSets, TLC

VARIABLES
    now,        \* wall clock, seconds since 2024-01-01 00:00:00
    ticks,      \* number of clock advances so far
    files,      \* output directory: filename -> [mtime, content]
    req,        \* per request: position in scrape_webpage and its locals
    sweep,      \* per request: the cleanup_old_files background task
    call,       \* outcome of the last direct OutputService call
    data,       \* renderer input under SpecRender: processed data
    prompt,     \* renderer input under SpecRender: user prompt
    out,        \* renderer output under SpecRender
    render      \* per render call: position in generate_output and its locals

vars == <<now, ticks, files, req, sweep, call, data, prompt, out, render>>

-----------------------------------------------------------------------------
(* Bounds of the model. *)

MaxRows == 2        \* elements in a generated sequence
MaxKeys == 2        \* keys in a generated scalar-only mapping
MaxTicks == 2       \* clock advances in one behaviour
MaxFiles == 2       \* files in the output directory when a render starts
MaxContent == 4     \* the configured max_content_length, scaled down

-----------------------------------------------------------------------------
(* JSON values. *)

S(s) == [t |-> "str", v |-> s]
N(n) == [t |-> "num", v |-> n]
B(b) == [t |-> "bool", v |-> b]
Null == [t |-> "null", v |-> 0]
M(items) == [t |-> "map", v |-> items]
L(elems) == [t |-> "list", v |-> elems]

IsDict(x) == x.t = "map"
IsList(x) == x.t = "list"

\* list(d.keys())
Keys(d) == [i \in 1..Len(d.v) |-> d.v[i][1]]

\* key in d
HasKey(d, k) == \E i \in 1..Len(d.v) : d.v[i][1] = k

\* d[k] for a key that is present
Lookup(d, k) == d.v[CHOOSE i \in 1..Len(d.v) : d.v[i][1] = k][2]

-----------------------------------------------------------------------------
(* String conversions, computed as Python computes them. *)

RECURSIVE Repeat(_, _)
Repeat(s, n) == IF n <= 0 THEN "" ELSE s \o Repeat(s, n - 1)

Digit(d) ==
    CASE d = 0 -> "0" [] d = 1 -> "1" [] d = 2 -> "2" [] d = 3 -> "3"
      [] d = 4 -> "4" [] d = 5 -> "5" [] d = 6 -> "6" [] d = 7 -> "7"
      [] d = 8 -> "8" [] d = 9 -> "9"

RECURSIVE IntToStr(_)
IntToStr(n) ==
    IF n < 0 THEN "-" \o IntToStr(0 - n)
    ELSE IF n < 10 THEN Digit(n)
    ELSE IntToStr(n \div 10) \o Digit(n % 10)

\* str.upper() on the key alphabet of the model
Upper(s) ==
    CASE s = "title" -> "TITLE"
      [] s = "content" -> "CONTENT"
      [] s = "items" -> "ITEMS"
      [] s = "more" -> "MORE"
      [] s = "tags" -> "TAGS"
      [] s = "meta" -> "META"
      [] s = "name" -> "NAME"
      [] s = "price" -> "PRICE"
      [] OTHER -> s

\* str.title() on the key alphabet of the model
Title(s) ==
    CASE s = "title" -> "Title"
      [] s = "content" -> "Content"
      [] s = "items" -> "Items"
      [] s = "more" -> "More"
      [] s = "tags" -> "Tags"
      [] s = "meta" -> "Meta"
      [] s = "name" -> "Name"
      [] s = "price" -> "Price"
      [] OTHER -> s

RECURSIVE Str(_), Repr(_), ReprElems(_, _), ReprItems(_, _)

\* str(x)
Str(x) ==
    CASE x.t = "str" -> x.v
      [] x.t = "num" -> IntToStr(x.v)
      [] x.t = "bool" -> (IF x.v THEN "True" ELSE "False")
      [] x.t = "null" -> "None"
      [] x.t = "list" -> "[" \o ReprElems(x.v, 1) \o "]"
      [] x.t = "map" -> "{" \o ReprItems(x.v, 1) \o "}"

\* repr(x): as str(x), with strings quoted
Repr(x) == IF x.t = "str" THEN "'" \o x.v \o "'" ELSE Str(x)

ReprElems(elems, i) ==
    IF i > Len(elems) THEN ""
    ELSE Repr(elems[i]) \o (IF i < Len(elems) THEN ", " ELSE "")
         \o ReprElems(elems, i + 1)

ReprItems(items, i) ==
    IF i > Len(items) THEN ""
    ELSE "'" \o items[i][1] \o "': " \o Repr(items[i][2])
         \o (IF i < Len(items) THEN ", " ELSE "") \o ReprItems(items, i + 1)

Pad2(n) == IF n < 10 THEN "0" \o Digit(n) ELSE IntToStr(n)

SecondsPerDay == 24 * 3600

\* datetime.now().strftime('%Y-%m-%d %H:%M:%S'); the clock stays in January 2024
StrfDateTime(t) ==
    "2024-01-" \o Pad2((t \div SecondsPerDay) + 1) \o " "
    \o Pad2((t % SecondsPerDay) \div 3600) \o ":"
    \o Pad2((t % 3600) \div 60) \o ":" \o Pad2(t % 60)

\* datetime.now().strftime("%Y%m%d_%H%M%S")
StrfStamp(t) ==
    "202401" \o Pad2((t \div SecondsPerDay) + 1) \o "_"
    \o Pad2((t % SecondsPerDay) \div 3600)
    \o Pad2((t % 3600) \div 60) \o Pad2(t % 60)

-----------------------------------------------------------------------------
(* Text renderer. *)

\* line 388: the line of a scalar value
TextScalarLine(indent_str, key, value) ==
    indent_str \o key \o ": " \o Str(value)

\* lines 375, 379: the label line of a mapping or sequence value
TextLabelLine(indent_str, key) == indent_str \o Upper(key) \o ":"

RECURSIVE FormatDictForText(_, _), TextEntries(_, _, _), TextListItems(_, _, _)

FormatDictForText(d, indent) == TextEntries(d.v, 1, indent)

TextEntries(items, i, indent) ==
    IF i > Len(items) THEN <<>>
    ELSE LET key == items[i][1]
             value == items[i][2]
             indent_str == Repeat("  ", indent)
             lines ==
                 IF IsDict(value)
                 THEN <<TextLabelLine(indent_str, key)>>
                      \o FormatDictForText(value, indent + 1) \o <<"">>
                 ELSE IF IsList(value)
                 THEN <<TextLabelLine(indent_str, key)>>
                      \o TextListItems(value.v, 1, indent) \o <<"">>
                 ELSE <<TextScalarLine(indent_str, key, value)>>
         IN  lines \o TextEntries(items, i + 1, indent)

\* mutant: enumerate(value) without the start
TextListItems_ZeroBased(elems, i, indent) ==
    IF i > Len(elems) THEN <<>>
    ELSE LET item == elems[i]
             indent_str == Repeat("  ", indent)
             lines ==
                 IF IsDict(item)
                 THEN <<indent_str \o "  " \o IntToStr(i - 1) \o ".">>
                      \o FormatDictForText(item, indent + 2)
                 ELSE <<indent_str \o "  " \o IntToStr(i - 1) \o ". " \o Str(item)>>
         IN  lines \o TextListItems(elems, i + 1, indent)

TextListItems(elems, i, indent) ==
    IF i > Len(elems) THEN <<>>
    ELSE LET item == elems[i]
             indent_str == Repeat("  ", indent)
             lines ==
                 IF IsDict(item)
                 THEN <<indent_str \o "  " \o IntToStr(i) \o ".">>
                      \o FormatDictForText(item, indent + 2)
                 ELSE <<indent_str \o "  " \o IntToStr(i) \o ". " \o Str(item)>>
         IN  lines \o TextListItems(elems, i + 1, indent)

\* the header block of the text file, lines 345-355
TextHeader(p, gen) ==
    << Repeat("=", 50), "WEB SCRAPING RESULTS", Repeat("=", 50), "",
       "Generated: " \o StrfDateTime(gen), "Prompt: " \o p, "",
       "EXTRACTED DATA:", Repeat("-", 20), "" >>

\* the lines written by _generate_text (joined by "\n" in the file)
TextContent(d, p, gen) ==
    TextHeader(p, gen)
    \o (IF IsDict(d) THEN FormatDictForText(d, 0) ELSE <<Str(d)>>)

-----------------------------------------------------------------------------
(* Table candidates, shared by the PDF and Excel renderers. *)

\* isinstance(value, list) and len(value) > 0 and all(isinstance(item, dict) ...)
IsTableCandidate(value) ==
    /\ IsList(value)
    /\ Len(value.v) > 0
    /\ \A i \in 1..Len(value.v) : IsDict(value.v[i])

\* mutant: the header schema taken from the last element
TableHeaders_FromLastElement(value) == Keys(value.v[Len(value.v)])

\* headers = list(value[0].keys())
TableHeaders(value) == Keys(value.v[1])

\* mutant: item.get(header) without the '' default
CellText_NoDefault(item, header) ==
    IF HasKey(item, header) THEN Str(Lookup(item, header)) ELSE "None"

\* str(item.get(header, ''))
CellText(item, header) ==
    IF HasKey(item, header) THEN Str(Lookup(item, header)) ELSE ""

\* row = [str(item.get(header, '')) for header in headers]
TableRow(item, headers) ==
    [c \in 1..Len(headers) |-> CellText(item, headers[c])]

\* mutant: the rows in reverse element order
TableRows_Reversed(value, headers) ==
    [r \in 1..Len(value.v) |-> TableRow(value.v[Len(value.v) + 1 - r], headers)]

\* for item in value: one row per element, in element order
TableRows(value, headers) ==
    [r \in 1..Len(value.v) |-> TableRow(value.v[r], headers)]

-----------------------------------------------------------------------------
(* Word renderer.  The document is the sequence of its block nodes. *)

Bullet == "*"   \* stands for U+2022

Heading(text, level) == [kind |-> "heading", level |-> level, style |-> "", text |-> text]
Para(text, style) == [kind |-> "paragraph", level |-> 0, style |-> style, text |-> text]

\* mutant: a heading at every level
WordDictNode_HeadingAtAnyLevel(key, level) == Heading(Title(key), 2)

\* lines 104-109: the node that opens a mapping value
WordDictNode(key, level) ==
    IF level = 0
    THEN Heading(Title(key), 2)
    ELSE Para(Repeat("  ", level) \o Bullet \o " " \o key \o ":", "List Bullet")

RECURSIVE AddDictToWord(_, _), WordEntries(_, _, _), WordListItems(_, _, _)

AddDictToWord(d, level) == WordEntries(d.v, 1, level)

WordEntries(items, i, level) ==
    IF i > Len(items) THEN <<>>
    ELSE LET key == items[i][1]
             value == items[i][2]
             nodes ==
                 IF IsDict(value)
                 THEN <<WordDictNode(key, level)>> \o AddDictToWord(value, level + 1)
                 ELSE IF IsList(value)
                 THEN <<Para(Repeat("  ", level) \o Bullet \o " " \o key \o ":",
                             "List Bullet")>>
                      \o WordListItems(value.v, 1, level)
                 ELSE <<Para(Repeat("  ", level) \o Bullet \o " " \o key \o ": "
                             \o Str(value), "")>>
         IN  nodes \o WordEntries(items, i + 1, level)

WordListItems(elems, i, level) ==
    IF i > Len(elems) THEN <<>>
    ELSE (IF IsDict(elems[i])
          THEN AddDictToWord(elems[i], level + 1)
          ELSE <<Para(Repeat("  ", level + 1) \o "- " \o Str(elems[i]), "")>>)
         \o WordListItems(elems, i + 1, level)

\* title, metadata and the heading of the data section, lines 80-90
WordHeader(p, gen) ==
    << Heading("Web Scraping Results", 0),
       Heading("Scraping Details", 1),
       Para("Generated: " \o StrfDateTime(gen), ""),
       Para("Prompt: " \o p, ""),
       Heading("Extracted Data", 1) >>

\* the nodes of the document saved by _generate_word
WordContent(d, p, gen) ==
    WordHeader(p, gen)
    \o (IF IsDict(d) THEN AddDictToWord(d, 0) ELSE <<Para(Str(d), "")>>)

-----------------------------------------------------------------------------
(* PDF renderer.  The document is the story handed to doc.build. *)

IsTabularData(d) ==
    /\ IsDict(d)
    /\ \E i \in 1..Len(d.v) : IsTableCandidate(d.v[i][2])

\* mutant: the last key whose value is a table candidate
FirstTableIndex_LastCandidate(d) ==
    CHOOSE i \in 1..Len(d.v) :
        /\ IsTableCandidate(d.v[i][2])
        /\ \A j \in (i + 1)..Len(d.v) : ~IsTableCandidate(d.v[j][2])

\* lines 197-207: the first key whose value is a table candidate
FirstTableIndex(d) ==
    CHOOSE i \in 1..Len(d.v) :
        /\ IsTableCandidate(d.v[i][2])
        /\ \A j \in 1..(i - 1) : ~IsTableCandidate(d.v[j][2])

DictToTableData(d) ==
    IF \E i \in 1..Len(d.v) : IsTableCandidate(d.v[i][2])
    THEN LET value == d.v[FirstTableIndex(d)][2]
             headers == TableHeaders(value)
         IN  <<headers>> \o TableRows(value, headers)
    ELSE <<>>

RECURSIVE FormatDataForPdf(_, _), PdfEntries(_, _, _), PdfListItems(_, _, _)

FormatDataForPdf(x, indent) ==
    IF IsDict(x) THEN PdfEntries(x.v, 1, indent)
    ELSE IF IsList(x) THEN PdfListItems(x.v, 1, indent)
    ELSE Str(x)

PdfEntries(items, i, indent) ==
    IF i > Len(items) THEN ""
    ELSE LET key == items[i][1]
             value == items[i][2]
             pad == Repeat("&nbsp;", indent * 4)
         IN  (IF IsDict(value) \/ IsList(value)
              THEN pad \o "<b>" \o key \o ":</b><br/>"
                   \o FormatDataForPdf(value, indent + 1)
              ELSE pad \o "<b>" \o key \o ":</b> " \o Str(value) \o "<br/>")
             \o PdfEntries(items, i + 1, indent)

PdfListItems(elems, i, indent) ==
    IF i > Len(elems) THEN ""
    ELSE Repeat("&nbsp;", indent * 4) \o Bullet \o " "
         \o FormatDataForPdf(elems[i], indent + 1) \o "<br/>"
         \o PdfListItems(elems, i + 1, indent)

PdfParagraph(text, style) == [kind |-> "Paragraph", style |-> style, text |-> text, grid |-> <<>>]
PdfSpacer == [kind |-> "Spacer", style |-> "", text |-> "", grid |-> <<>>]
PdfTable(grid) == [kind |-> "Table", style |-> "grid", text |-> "", grid |-> grid]

\* title and metadata blocks and the heading of the data block, lines 143-153
PdfHeader(p, gen) ==
    << PdfParagraph("Web Scraping Results", "CustomTitle"),
       PdfSpacer,
       PdfParagraph("Scraping Details", "Heading2"),
       PdfParagraph("<b>Generated:</b> " \o StrfDateTime(gen), "Normal"),
       PdfParagraph("<b>Prompt:</b> " \o p, "Normal"),
       PdfSpacer,
       PdfParagraph("Extracted Data", "Heading2") >>

\* the data block, lines 155-174
PdfDataBlock(d) ==
    IF IsDict(d) /\ IsTabularData(d)
    THEN LET table_data == DictToTableData(d)
         IN  IF table_data # <<>> THEN <<PdfTable(table_data)>> ELSE <<>>
    ELSE <<PdfParagraph(FormatDataForPdf(d, 0), "Normal")>>

\* the story built by _generate_pdf
PdfContent(d, p, gen) == PdfHeader(p, gen) \o PdfDataBlock(d)

-----------------------------------------------------------------------------
(* Excel renderer.  The worksheet is a function <<row, column>> -> cell; *)
(* a cell is its value and its styling.                                  *)

Cell(value, style) == [value |-> value, style |-> style]

Put(cells, r, c, cell) ==
    [k \in (DOMAIN cells) \cup {<<r, c>>} |-> IF k = <<r, c>> THEN cell ELSE cells[k]]

EmptySheet == [k \in {} |-> Cell("", "")]

RECURSIVE PutRow(_, _, _, _, _)
\* for col, x in enumerate(texts, 1): ws.cell(row=r, column=col, value=x)
PutRow(cells, r, texts, c, style) ==
    IF c > Len(texts) THEN cells
    ELSE PutRow(Put(cells, r, c, Cell(texts[c], style)), r, texts, c + 1, style)

RECURSIVE PutRows(_, _, _, _)
\* lines 311-314: one worksheet row per element, starting at row r
PutRows(cells, r, rows, i) ==
    IF i > Len(rows) THEN cells
    ELSE PutRows(PutRow(cells, r, rows[i], 1, ""), r + 1, rows, i + 1)

RECURSIVE PutColumn(_, _, _, _)
\* lines 322-324: one cell in column A per element, starting at row r
PutColumn(cells, r, elems, i) ==
    IF i > Len(elems) THEN cells
    ELSE PutColumn(Put(cells, r, 1, Cell(Str(elems[i]), "")), r + 1, elems, i + 1)

\* mutant: no blank row after the data rows
ExcelTableBlock_NoBlankRow(st, key, value) ==
    LET headers == TableHeaders(value)
        c1 == Put(st.cells, st.row, 1, Cell(Title(key), "section"))
        c2 == PutRow(c1, st.row + 1, headers, 1, "header")
        c3 == PutRows(c2, st.row + 2, TableRows(value, headers), 1)
    IN  [cells |-> c3, row |-> st.row + 2 + Len(value.v)]

\* lines 296-315: section header, header row, data rows, blank row
ExcelTableBlock(st, key, value) ==
    LET headers == TableHeaders(value)
        c1 == Put(st.cells, st.row, 1, Cell(Title(key), "section"))
        c2 == PutRow(c1, st.row + 1, headers, 1, "header")
        c3 == PutRows(c2, st.row + 2, TableRows(value, headers), 1)
    IN  [cells |-> c3, row |-> st.row + 2 + Len(value.v) + 1]

\* lines 318-325: section header, one row per element, blank row
ExcelListBlock(st, key, value) ==
    LET c1 == Put(st.cells, st.row, 1, Cell(Title(key), "section"))
        c2 == PutColumn(c1, st.row + 1, value.v, 1)
    IN  [cells |-> c2, row |-> st.row + 1 + Len(value.v) + 1]

\* mutant: the cursor not advanced after a key-value row
ExcelPairRow_SameRow(st, key, value) ==
    LET c1 == Put(st.cells, st.row, 1, Cell(Title(key), ""))
        c2 == Put(c1, st.row, 2, Cell(Str(value), ""))
    IN  [cells |-> c2, row |-> st.row]

\* lines 328-330: key in column A, stringified value in column B
ExcelPairRow(st, key, value) ==
    LET c1 == Put(st.cells, st.row, 1, Cell(Title(key), ""))
        c2 == Put(c1, st.row, 2, Cell(Str(value), ""))
    IN  [cells |-> c2, row |-> st.row + 1]

RECURSIVE ExcelEntries(_, _, _)
ExcelEntries(st, items, i) ==
    IF i > Len(items) THEN st
    ELSE LET key == items[i][1]
             value == items[i][2]
             next ==
                 IF IsList(value) /\ Len(value.v) > 0
                 THEN IF \A j \in 1..Len(value.v) : IsDict(value.v[j])
                      THEN ExcelTableBlock(st, key, value)
                      ELSE ExcelListBlock(st, key, value)
                 ELSE ExcelPairRow(st, key, value)
         IN  ExcelEntries(next, items, i + 1)

\* _add_dict_to_excel(ws, data, start_row): the sheet and the returned cursor
AddDictToExcel(cells, d, start_row) ==
    ExcelEntries([cells |-> cells, row |-> start_row], d.v, 1)

ExcelDataStartRow == 6
ExcelMaxWidth == 50

\* lines 250-255: the metadata cells
ExcelHeader(p, gen) ==
    LET c1 == Put(EmptySheet, 1, 1, Cell("Web Scraping Results", "title"))
        c2 == Put(c1, 3, 1, Cell("Generated:", ""))
        c3 == Put(c2, 3, 2, Cell(StrfDateTime(gen), ""))
        c4 == Put(c3, 4, 1, Cell("Prompt:", ""))
    IN  Put(c4, 4, 2, Cell(p, ""))

\* mutant: "if data:" in place of the isinstance test
ExcelData_Truthy(cells, d) ==
    IF IsDict(d) /\ Len(d.v) > 0
    THEN AddDictToExcel(cells, d, ExcelDataStartRow).cells
    ELSE Put(Put(cells, ExcelDataStartRow, 1, Cell("Extracted Data", "section")),
             ExcelDataStartRow + 1, 1, Cell(Str(d), ""))

\* lines 258-267: the data cells
ExcelData(cells, d) ==
    IF IsDict(d)
    THEN AddDictToExcel(cells, d, ExcelDataStartRow).cells
    ELSE Put(Put(cells, ExcelDataStartRow, 1, Cell("Extracted Data", "section")),
             ExcelDataStartRow + 1, 1, Cell(Str(d), ""))

SetMax(T) == IF T = {} THEN 0 ELSE CHOOSE m \in T : \A x \in T : x <= m
Min(a, b) == IF a < b THEN a ELSE b

MaxRow(cells) == SetMax({k[1] : k \in DOMAIN cells})
MaxColumn(cells) == SetMax({k[2] : k \in DOMAIN cells})

\* len(str(cell.value)): ws.columns yields every row up to max_row, and a
\* cell never written holds None
CellLength(cells, r, c) ==
    IF <<r, c>> \in DOMAIN cells THEN Len(cells[<<r, c>>].value) ELSE Len("None")

\* mutant: the width without the cap
ColumnWidth_NoCap(cells, c) ==
    SetMax({CellLength(cells, r, c) : r \in 1..MaxRow(cells)}) + 2

\* lines 270-280: the width given to column c
ColumnWidth(cells, c) ==
    LET max_length == SetMax({CellLength(cells, r, c) : r \in 1..MaxRow(cells)})
    IN  Min(max_length + 2, ExcelMaxWidth)

\* the workbook saved by _generate_excel
ExcelContent(d, p, gen) ==
    LET cells == ExcelData(ExcelHeader(p, gen), d)
    IN  [cells |-> cells,
         widths |-> [c \in 1..MaxColumn(cells) |-> ColumnWidth(cells, c)]]

-----------------------------------------------------------------------------
(* The renderer inputs of the model: a bounded set of JSON values. *)

\* sequences of at most n <<key, value>> pairs with distinct keys
PairSeqs(ks, vals, n) ==
    UNION { { s \in [1..m -> ks \X vals] :
                \A i, j \in 1..m : i # j => s[i][1] # s[j][1] } : m \in 0..n }

\* non-empty sequences of at most n elements
SeqsUpTo(vals, n) == UNION { [1..m -> vals] : m \in 1..n }

RowKeys == {"name", "price"}
RowScalars == {S("A"), N(12)}
Rows == { M(s) : s \in PairSeqs(RowKeys, RowScalars, Cardinality(RowKeys)) }

\* table candidates: non-empty sequences of mappings
TableLists == { L(s) : s \in SeqsUpTo(Rows, MaxRows) }
SmallTableLists == { L(<<r>>) : r \in Rows }

\* values that are no table candidate
OtherValues ==
    { S("Test Page"), S("Test content"), N(1), B(TRUE), Null,
      L(<<>>), L(<<S("x"), N(7)>>), L(<<M(<<<<"name", S("A")>>>>), S("x")>>),
      M(<<<<"name", S("A")>>, <<"meta", M(<<<<"price", N(12)>>>>)>>>>) }

\* the values put beside a table candidate
PairedValues == { S("Test Page"), L(<<S("x"), N(7)>>) }

TopKeys == {"title", "content", "tags"}

\* texts around the widest column _generate_excel allows
LongTexts == { Repeat("x", n) : n \in {47, 48, 60} }

\* a long scalar, and a table of three columns with a long cell: its third
\* column holds short texts only
WideData ==
    { M(<<<<"content", S(x)>>>>) : x \in LongTexts }
    \cup { M(<<<<"items", L(<<M(<<<<"name", S(x)>>, <<"price", N(12)>>, <<"id", N(1)>>>>)>>)>>>>) :
                x \in LongTexts \cup {"A"} }

\* a sequence below the top level, with a scalar and a mapping element
NestedData ==
    { M(<<<<"meta", M(<<<<"tags", L(<<S("x"), M(<<<<"name", S("A")>>>>)>>)>>>>)>>>>),
      M(<<<<"tags", L(<<M(<<<<"meta", M(<<<<"price", N(12)>>>>)>>>>), S("x")>>)>>>>) }

DataSet ==
    { M(s) : s \in PairSeqs(TopKeys, OtherValues, MaxKeys) }
    \cup { M(<<<<"items", tl>>>>) : tl \in TableLists }
    \cup { M(<<<<"title", o>>, <<"items", tl>>>>) : o \in PairedValues, tl \in TableLists }
    \cup { M(<<<<"items", tl>>, <<"title", o>>>>) : o \in PairedValues, tl \in TableLists }
    \cup { M(<<<<"items", a>>, <<"more", b>>>>) : a \in SmallTableLists, b \in SmallTableLists }
    \cup WideData
    \cup NestedData

\* JSON the LLM can return that is no mapping at the top level
NonMappings == { L(<<S("x"), N(7)>>), S("Test content"), L(<<>>) }

RenderInputs == DataSet \cup NonMappings

Prompts == {"Extract the title"}

-----------------------------------------------------------------------------
(* SpecRender: the four renderers applied to every input of RenderInputs. *)

NoOut == [fmt |-> "none", doc |-> <<>>]

NoCall == [op |-> "none", fmt |-> "", error |-> "", filename |-> "", changed |-> FALSE]

InitRender ==
    /\ now = 0
    /\ ticks = 0
    /\ files = <<>>
    /\ req = <<>>
    /\ sweep = <<>>
    /\ call = NoCall
    /\ data \in RenderInputs
    /\ prompt \in Prompts
    /\ out = NoOut
    /\ render = <<>>

RenderText ==
    /\ out' = [fmt |-> "text", doc |-> TextContent(data, prompt, now)]
    /\ UNCHANGED <<now, ticks, files, req, sweep, call, data, prompt, render>>

RenderWord ==
    /\ out' = [fmt |-> "word", doc |-> WordContent(data, prompt, now)]
    /\ UNCHANGED <<now, ticks, files, req, sweep, call, data, prompt, render>>

RenderPdf ==
    /\ out' = [fmt |-> "pdf", doc |-> PdfContent(data, prompt, now)]
    /\ UNCHANGED <<now, ticks, files, req, sweep, call, data, prompt, render>>

RenderExcel ==
    /\ out' = [fmt |-> "excel", doc |-> ExcelContent(data, prompt, now)]
    /\ UNCHANGED <<now, ticks, files, req, sweep, call, data, prompt, render>>

NextRender == RenderText \/ RenderWord \/ RenderPdf \/ RenderExcel

SpecRender == InitRender /\ [][NextRender]_vars

-----------------------------------------------------------------------------
(* Reading a rendered document back, for the properties below. *)

SetMin(T) == CHOOSE m \in T : \A x \in T : m <= x

RECURSIVE Ascending(_)
\* the members of a finite set of integers, in ascending order
Ascending(T) ==
    IF T = {} THEN <<>> ELSE <<SetMin(T)>> \o Ascending(T \ {SetMin(T)})

\* the table candidates of a mapping, in key order
RECURSIVE TableCandidatesFrom(_, _)
TableCandidatesFrom(items, i) ==
    IF i > Len(items) THEN <<>>
    ELSE (IF /\ items[i][2].t = "list"
             /\ Len(items[i][2].v) > 0
             /\ \A j \in 1..Len(items[i][2].v) : items[i][2].v[j].t = "map"
          THEN <<items[i][2]>> ELSE <<>>)
         \o TableCandidatesFrom(items, i + 1)

TableCandidatesOf(d) == IF d.t = "map" THEN TableCandidatesFrom(d.v, 1) ELSE <<>>

\* the table candidates whose first element has at least one key
WithHeaders(tcs) == SelectSeq(tcs, LAMBDA tc : Len(tc.v[1].v) > 0)

\* the grids of a PDF story: the data of its Table nodes, in order
PdfGrids(doc) ==
    LET tables == SelectSeq(doc, LAMBDA node : node.kind = "Table")
    IN  [k \in 1..Len(tables) |-> tables[k].grid]

RowCells(cells, r) == { k \in DOMAIN cells : k[1] = r }

\* row r of a sheet as the sequence of the values of its cells
SheetRow(cells, r) ==
    [c \in 1..SetMax({k[2] : k \in RowCells(cells, r)}) |->
        IF <<r, c>> \in DOMAIN cells THEN cells[<<r, c>>].value ELSE "<no cell>"]

\* the last row of the run of non-empty rows that starts at row h
RECURSIVE RunEnd(_, _)
RunEnd(cells, h) ==
    IF RowCells(cells, h + 1) = {} THEN h ELSE RunEnd(cells, h + 1)

\* the grids of a sheet: each header-styled row with the rows below it, down
\* to the next blank row
ExcelGrids(cells) ==
    LET hs == Ascending({ k[1] : k \in { x \in DOMAIN cells : cells[x].style = "header" } })
    IN  [k \in 1..Len(hs) |->
            [r \in 1..(RunEnd(cells, hs[k]) - hs[k] + 1) |-> SheetRow(cells, hs[k] + r - 1)]]

\* the grids of the rendered document and the sequences they should show
GridsOut ==
    IF out.fmt = "pdf" THEN PdfGrids(out.doc)
    ELSE IF out.fmt = "excel" THEN ExcelGrids(out.doc.cells)
    ELSE <<>>

GridsExpected ==
    IF out.fmt = "pdf"
    THEN (IF TableCandidatesOf(data) = <<>> THEN <<>> ELSE <<TableCandidatesOf(data)[1]>>)
    ELSE IF out.fmt = "excel" THEN WithHeaders(TableCandidatesOf(data))
    ELSE <<>>

\* the string form of a scalar, as the claims state it
Shown(x) ==
    CASE x.t = "str" -> x.v
      [] x.t = "num" -> IntToStr(x.v)
      [] x.t = "bool" -> (IF x.v THEN "True" ELSE "False")
      [] x.t = "null" -> "None"

KeyAt(m, c) == m.v[c][1]
Has(m, k) == \E i \in 1..Len(m.v) : m.v[i][1] = k
ValueOf(m, k) == m.v[CHOOSE i \in 1..Len(m.v) : m.v[i][1] = k][2]

-----------------------------------------------------------------------------
(* Properties of the renderers, checked under SpecRender. *)

\* C5: for a mapping with a key whose value is a non-empty sequence of
\* mappings, the grid built by the PDF table builder and each grid written by
\* the Excel writer has as its header row exactly the keys of the first
\* element of the sequence, in that element's key order.
C5_HeaderRowIsFirstElementKeys ==
    out.fmt \in {"pdf", "excel"} =>
        /\ Len(GridsOut) = Len(GridsExpected)
        /\ \A k \in 1..Len(GridsExpected) :
            LET first == GridsExpected[k].v[1]
            IN  /\ Len(GridsOut[k]) >= 1
                /\ GridsOut[k][1] = [c \in 1..Len(first.v) |-> KeyAt(first, c)]

C5_Witness ==
    /\ out.fmt = "excel"
    /\ Len(TableCandidatesOf(data)) = 2
    /\ Len(GridsOut) = 2
    /\ GridsOut[1][1] = <<"price", "name">>
    /\ GridsOut[2][1] = <<"name">>

\* C6: an element of a table candidate that lacks a header key gets the empty
\* string in that column, in the PDF grid and in the Excel grid; the row keeps
\* one cell per header and its other cells hold their values.
C6_MissingKeyIsEmptyCell ==
    out.fmt \in {"pdf", "excel"} =>
        /\ Len(GridsOut) = Len(GridsExpected)
        /\ \A k \in 1..Len(GridsExpected) :
            LET tc == GridsExpected[k]
                first == tc.v[1]
            IN  \A r \in 1..Len(tc.v) :
                    (\E c \in 1..Len(first.v) : ~Has(tc.v[r], KeyAt(first, c))) =>
                        /\ Len(GridsOut[k]) >= r + 1
                        /\ Len(GridsOut[k][r + 1]) = Len(first.v)
                        /\ \A c \in 1..Len(first.v) :
                            GridsOut[k][r + 1][c] =
                                IF Has(tc.v[r], KeyAt(first, c))
                                THEN Shown(ValueOf(tc.v[r], KeyAt(first, c)))
                                ELSE ""

C6_Witness ==
    /\ out.fmt = "pdf"
    /\ Len(GridsOut) = 1
    /\ Len(GridsOut[1]) = 3
    /\ GridsOut[1][1] = <<"name", "price">>
    /\ GridsOut[1][3] = <<"", "12">>
    /\ ~Has(GridsExpected[1].v[2], "name")

\* C7: a table candidate with n elements gives exactly n data rows after the
\* header row, in element order, and the cell of a key the element has is the
\* string form of its value (a number as its decimal text).
C7_OneRowPerElementInOrder ==
    out.fmt \in {"pdf", "excel"} =>
        /\ Len(GridsOut) = Len(GridsExpected)
        /\ \A k \in 1..Len(GridsExpected) :
            LET tc == GridsExpected[k]
                first == tc.v[1]
            IN  /\ Len(GridsOut[k]) = Len(tc.v) + 1
                /\ \A r \in 1..Len(tc.v) : \A c \in 1..Len(first.v) :
                    Has(tc.v[r], KeyAt(first, c)) =>
                        /\ c \in DOMAIN GridsOut[k][r + 1]
                        /\ GridsOut[k][r + 1][c] = Shown(ValueOf(tc.v[r], KeyAt(first, c)))

C7_Witness ==
    /\ out.fmt = "excel"
    /\ Len(GridsOut) = 1
    /\ GridsOut[1] = << <<"name", "price">>, <<"A", "12">>, <<"12", "A">> >>

\* C8: in text format every top-level key with a scalar value gives, after
\* the EXTRACTED DATA: banner, the line "<KEY IN UPPER CASE>: <value>".
C8_ScalarKeysAreUpperCased ==
    (out.fmt = "text" /\ data.t = "map") =>
        \A i \in 1..Len(data.v) :
            data.v[i][2].t \in {"str", "num", "bool", "null"} =>
                \E n \in 1..Len(out.doc) :
                    /\ \E b \in 1..(n - 1) : out.doc[b] = "EXTRACTED DATA:"
                    /\ out.doc[n] = Upper(data.v[i][1]) \o ": " \o Shown(data.v[i][2])

\* the positions of the keys of d whose value is a non-empty sequence of
\* mappings
CandidatePositions(d) ==
    { i \in (IF d.t = "map" THEN 1..Len(d.v) ELSE {}) :
        /\ d.v[i][2].t = "list"
        /\ Len(d.v[i][2].v) > 0
        /\ \A j \in 1..Len(d.v[i][2].v) : d.v[i][2].v[j].t = "map" }

\* the nodes of a PDF story after the "Extracted Data" heading
DataBlockOf(doc) ==
    LET h == CHOOSE n \in 1..Len(doc) : doc[n].text = "Extracted Data"
    IN  SubSeq(doc, h + 1, Len(doc))

\* C12: when the mapping has table candidates the PDF data block is one
\* table, the grid of the first candidate in key order, and is the data block
\* the renderer gives the mapping that holds that one key only: no other key
\* (a further candidate, a scalar, a nested value) adds anything.  The
\* narrative paragraph is there when, and only when, no candidate exists.
C12_OnlyFirstCandidateIsTabulated ==
    out.fmt = "pdf" =>
        LET block == DataBlockOf(out.doc)
        IN  IF CandidatePositions(data) # {}
            THEN LET first == data.v[SetMin(CandidatePositions(data))]
                 IN  /\ Len(block) = 1
                     /\ block[1].kind = "Table"
                     /\ Len(block[1].grid) = Len(first[2].v) + 1
                     /\ block[1].grid[1] =
                            [c \in 1..Len(first[2].v[1].v) |-> KeyAt(first[2].v[1], c)]
                     /\ out.doc = PdfContent(M(<<first>>), prompt, now)
            ELSE /\ Len(block) = 1
                 /\ block[1].kind = "Paragraph"

C12_Witness ==
    /\ out.fmt = "pdf"
    /\ Cardinality(CandidatePositions(data)) = 2
    /\ data.v[1][2] # data.v[2][2]
    /\ Len(DataBlockOf(out.doc)) = 1
    /\ DataBlockOf(out.doc)[1].grid = << <<"price", "name">>, <<"12", "A">> >>
    /\ Keys(data.v[2][2].v[1]) = <<"name">>

\* C10: the empty mapping renders, in each format, to the fixed title and
\* metadata only: no data line in the text file, no data paragraph or heading
\* in the Word document, no table and an empty narrative in the PDF story, no
\* cell at row 6 or below in the sheet.
C10_EmptyMappingHasNoDataContent ==
    data = [t |-> "map", v |-> <<>>] =>
        /\ out.fmt = "text" =>
            out.doc = << Repeat("=", 50), "WEB SCRAPING RESULTS", Repeat("=", 50), "",
                         "Generated: " \o StrfDateTime(now), "Prompt: " \o prompt, "",
                         "EXTRACTED DATA:", Repeat("-", 20), "" >>
        /\ out.fmt = "word" =>
            /\ Len(out.doc) = 5
            /\ out.doc[5].kind = "heading" /\ out.doc[5].text = "Extracted Data"
            /\ \A n \in 1..Len(out.doc) : out.doc[n].kind = "heading" => out.doc[n].level < 2
        /\ out.fmt = "pdf" =>
            /\ \A n \in 1..Len(out.doc) : out.doc[n].kind # "Table"
            /\ Len(out.doc) = 8
            /\ out.doc[7].text = "Extracted Data"
            /\ out.doc[8].kind = "Paragraph" /\ out.doc[8].text = ""
        /\ out.fmt = "excel" =>
            DOMAIN out.doc.cells = { <<1, 1>>, <<3, 1>>, <<3, 2>>, <<4, 1>>, <<4, 2>> }

C10_Witness ==
    /\ data = [t |-> "map", v |-> <<>>]
    /\ out.fmt = "excel"
    /\ \A k \in DOMAIN out.doc.cells : k[1] < 6

\* the cells written in column c of a sheet, and the rows of the sheet
ColumnCells(cells, c) == { k \in DOMAIN cells : k[2] = c }
SheetRows(cells) == 1..SetMax({ k[1] : k \in DOMAIN cells })

\* the lengths of the cell values of column c as written
WrittenLengths(cells, c) == { Len(cells[k].value) : k \in ColumnCells(cells, c) }

\* the same, a cell never written counting with the four characters of None
StringifiedLengths(cells, c) ==
    WrittenLengths(cells, c)
    \cup (IF \E r \in SheetRows(cells) : <<r, c>> \notin DOMAIN cells THEN {4} ELSE {})

\* C21 as claimed: the width of every column of the saved sheet is the length
\* of the longest stringified cell value of the column, capped at 50; no
\* width exceeds 50.
C21_WidthIsLongestCellCappedAt50 ==
    out.fmt = "excel" =>
        \A c \in DOMAIN out.doc.widths :
            /\ out.doc.widths[c] = Min(SetMax(StringifiedLengths(out.doc.cells, c)), 50)
            /\ out.doc.widths[c] <= 50

\* C21 as amended: the width of every column of the saved sheet is the length
\* of the longest stringified cell value of the column plus 2, capped at 50,
\* where a cell never written in a row of the sheet stringifies to "None"; no
\* width exceeds 50, and every column that holds a cell has a width.
C21_WidthIsLongestCellPlusTwoCappedAt50 ==
    out.fmt = "excel" =>
        /\ \A k \in DOMAIN out.doc.cells : k[2] \in DOMAIN out.doc.widths
        /\ \A c \in DOMAIN out.doc.widths :
            /\ out.doc.widths[c] =
                    Min(SetMax(StringifiedLengths(out.doc.cells, c)) + 2, 50)
            /\ out.doc.widths[c] <= 50

C21_Witness ==
    /\ out.fmt = "excel"
    /\ DOMAIN out.doc.widths = 1..3
    /\ SetMax(WrittenLengths(out.doc.cells, 1)) = 60
    /\ out.doc.widths[1] = 50
    /\ SetMax(WrittenLengths(out.doc.cells, 3)) = 2
    /\ out.doc.widths[3] = 6

\* the row cursor of _add_dict_to_excel after the first i keys of the data
CursorAfter(i) ==
    AddDictToExcel(ExcelHeader(prompt, now), M(SubSeq(data.v, 1, i)),
                   ExcelDataStartRow).row

\* the columns that hold a cell in row r of the rendered sheet
ColumnsOfRow(r) == { k[2] : k \in RowCells(out.doc.cells, r) }

\* C23: data placement starts at row 6; a key whose value is a table
\* candidate of n elements takes the n+3 rows from the cursor on: a section
\* header row, a header row with the first element's keys, n data rows, a
\* blank row; a key whose value is a non-empty sequence of n non-mappings
\* takes n+2 rows: section header, n value rows, a blank row.
C23_BlocksOccupyFixedRowCounts ==
    (out.fmt = "excel" /\ data.t = "map") =>
        /\ CursorAfter(0) = 6
        /\ ColumnsOfRow(5) = {}
        /\ Len(data.v) > 0 => 1 \in ColumnsOfRow(6)
        /\ \A i \in 1..Len(data.v) :
            LET value == data.v[i][2]
                n == Len(value.v)
                start == CursorAfter(i - 1)
            IN  /\ (value.t = "list" /\ n > 0 /\ \A j \in 1..n : value.v[j].t = "map") =>
                    LET width == Len(value.v[1].v)
                    IN  /\ CursorAfter(i) = start + n + 3
                        /\ ColumnsOfRow(start) = {1}
                        /\ out.doc.cells[<<start, 1>>].style = "section"
                        /\ ColumnsOfRow(start + 1) = 1..width
                        /\ \A c \in 1..width :
                            /\ out.doc.cells[<<start + 1, c>>].style = "header"
                            /\ out.doc.cells[<<start + 1, c>>].value = KeyAt(value.v[1], c)
                        /\ \A r \in 1..n : ColumnsOfRow(start + 1 + r) = 1..width
                        /\ ColumnsOfRow(start + n + 2) = {}
                /\ (value.t = "list" /\ n > 0 /\ \A j \in 1..n : value.v[j].t # "map") =>
                    /\ CursorAfter(i) = start + n + 2
                    /\ ColumnsOfRow(start) = {1}
                    /\ out.doc.cells[<<start, 1>>].style = "section"
                    /\ \A r \in 1..n :
                        /\ ColumnsOfRow(start + r) = {1}
                        /\ out.doc.cells[<<start + r, 1>>].value = Shown(value.v[r])
                    /\ ColumnsOfRow(start + n + 1) = {}

C23_Witness ==
    /\ out.fmt = "excel"
    /\ Len(data.v) = 2
    /\ data.v[1][1] = "items"
    /\ Len(data.v[1][2].v) = 2
    /\ data.v[2][2].t = "list"
    /\ ColumnsOfRow(6) = {1}
    /\ ColumnsOfRow(7) = {1, 2}
    /\ ColumnsOfRow(10) = {}
    /\ out.doc.cells[<<11, 1>>].style = "section"
    /\ ColumnsOfRow(12) = {1}
    /\ ColumnsOfRow(13) = {1}
    /\ SetMax({ k[1] : k \in DOMAIN out.doc.cells }) = 13

\* the number of lines the text of a value takes under its key, and an
\* element of a sequence under its number
RECURSIVE LinesOf(_), LinesOfAll(_, _), LinesOfElement(_), LinesOfElements(_, _)
LinesOf(value) ==
    CASE value.t = "map" -> 1 + LinesOfAll(value.v, Len(value.v)) + 1
      [] value.t = "list" -> 1 + LinesOfElements(value.v, Len(value.v)) + 1
      [] OTHER -> 1

\* the lines of the first i entries of a mapping
LinesOfAll(items, i) ==
    IF i = 0 THEN 0 ELSE LinesOfAll(items, i - 1) + LinesOf(items[i][2])

LinesOfElement(item) ==
    IF item.t = "map" THEN 1 + LinesOfAll(item.v, Len(item.v)) ELSE 1

\* the lines of the first j elements of a sequence
LinesOfElements(elems, j) ==
    IF j = 0 THEN 0 ELSE LinesOfElements(elems, j - 1) + LinesOfElement(elems[j])

\* the line of a scalar key at indent level k, in either letter case of the key
ScalarLines(key, value, k) ==
    { Repeat("  ", k) \o key \o ": " \o Shown(value),
      Repeat("  ", k) \o Upper(key) \o ": " \o Shown(value) }

RECURSIVE EntriesReadAt(_, _, _, _)
\* the lines of doc from line n on read as the entries of a mapping at indent
\* level k: a sequence as its label and numbered elements, the keys of a
\* mapping element two levels deeper; a mapping as its label, its entries one
\* level deeper and a blank line
EntriesReadAt(doc, items, n, k) ==
    \A i \in 1..Len(items) :
        LET key == items[i][1]
            value == items[i][2]
            at == n + LinesOfAll(items, i - 1)
        IN  /\ at + LinesOf(value) - 1 <= Len(doc)
            /\ CASE value.t = "list" ->
                     /\ doc[at] = Repeat("  ", k) \o Upper(key) \o ":"
                     /\ \A j \in 1..Len(value.v) :
                         LET item == value.v[j]
                             p == at + 1 + LinesOfElements(value.v, j - 1)
                         IN  IF item.t = "map"
                             THEN /\ doc[p] = Repeat("  ", k + 1) \o IntToStr(j) \o "."
                                  /\ EntriesReadAt(doc, item.v, p + 1, k + 2)
                             ELSE doc[p] = Repeat("  ", k + 1) \o IntToStr(j) \o ". "
                                               \o Shown(item)
                  [] value.t = "map" ->
                     /\ doc[at] = Repeat("  ", k) \o Upper(key) \o ":"
                     /\ EntriesReadAt(doc, value.v, at + 1, k + 1)
                     /\ doc[at + LinesOf(value) - 1] = ""
                  [] OTHER -> doc[at] \in ScalarLines(key, value, k)

\* the line of the text file that follows the EXTRACTED DATA: banner, its
\* rule and a blank line
FirstDataLine(doc) == (CHOOSE n \in 1..Len(doc) : doc[n] = "EXTRACTED DATA:") + 3

\* C24: in the text file a key whose value is a sequence gives the
\* upper-cased key as a label line and then one entry per element, numbered
\* 1., 2., ... in element order; a non-mapping element stands on the line of
\* its number, a mapping element has its number alone on a line and its keys
\* two indent levels deeper than the label; a key whose value is a mapping is
\* rendered one indent level deeper and followed by a blank line.
C24_SequencesAreNumberedInOrder ==
    (out.fmt = "text" /\ data.t = "map") =>
        EntriesReadAt(out.doc, data.v, FirstDataLine(out.doc), 0)

C24_Witness ==
    /\ out.fmt = "text"
    /\ data \in NestedData
    /\ SubSeq(out.doc, 11, Len(out.doc)) =
            << "META:", "  TAGS:", "    1. x", "    2.", "      name: A", "", "" >>

\* the nodes of a Word document after the "Extracted Data" heading
WordBodyOf(doc) ==
    LET h == CHOOSE n \in 1..Len(doc) :
                 doc[n].kind = "heading" /\ doc[n].text = "Extracted Data"
    IN  SubSeq(doc, h + 1, Len(doc))

\* the top-level entries of a mapping whose value is a mapping, in key order
MappingEntries(d) == SelectSeq(d.v, LAMBDA item : item[2].t = "map")

\* C25: in the Word document only depth 0 gets headings.  The headings of the
\* data section are, in key order, the level-2 headings of the title-cased
\* top-level keys whose value is a mapping; no key below the top level gives
\* a heading, every other node is a bulleted or plain paragraph; data that is
\* no mapping gives exactly one plain paragraph with its string form.
C25_OnlyTopLevelKeysAreHeadings ==
    out.fmt = "word" =>
        LET body == WordBodyOf(out.doc)
            headings == SelectSeq(body, LAMBDA node : node.kind = "heading")
        IN  IF data.t = "map"
            THEN /\ Len(headings) = Len(MappingEntries(data))
                 /\ \A h \in 1..Len(headings) :
                     /\ headings[h].level = 2
                     /\ headings[h].text = Title(MappingEntries(data)[h][1])
                 /\ \A n \in 1..Len(body) :
                     body[n].kind # "heading" =>
                         /\ body[n].kind = "paragraph"
                         /\ body[n].style \in {"List Bullet", ""}
            ELSE /\ Len(body) = 1
                 /\ body[1].kind = "paragraph"
                 /\ body[1].style = ""
                 /\ body[1].text = Str(data)

C25_Witness ==
    /\ out.fmt = "word"
    /\ data = M(<<<<"title", M(<<<<"name", S("A")>>, <<"meta", M(<<<<"price", N(12)>>>>)>>>>)>>,
                 <<"tags", L(<<M(<<<<"name", S("A")>>>>), S("x")>>)>>>>)
    /\ Len(SelectSeq(WordBodyOf(out.doc), LAMBDA node : node.kind = "heading")) = 1
    /\ WordBodyOf(out.doc)[1] = Heading("Title", 2)
    /\ Len(WordBodyOf(out.doc)) = 7

\* the sheet and the cursor of _add_dict_to_excel after the first i keys of
\* the data
ExcelStateAfter(i) ==
    AddDictToExcel(ExcelHeader(prompt, now), M(SubSeq(data.v, 1, i)), ExcelDataStartRow)

\* the cells that are new or changed from one sheet to the next
WrittenBetween(before, after) ==
    { k \in DOMAIN after : k \notin DOMAIN before \/ after[k] # before[k] }

\* C29: the row cursor of the Excel renderer only moves forward.  The block of
\* each key starts at the cursor the previous key left, no cell is written in
\* a row before start_row or in a row an earlier key used, earlier cells stay
\* as they were, and the cursor returned is above every row written.
C29_RowCursorOnlyMovesForward ==
    (out.fmt = "excel" /\ data.t = "map") =>
        LET final == ExcelStateAfter(Len(data.v))
        IN  /\ out.doc.cells = final.cells
            /\ \A k \in DOMAIN final.cells : k[1] < final.row
            /\ \A i \in 1..Len(data.v) :
                LET before == ExcelStateAfter(i - 1)
                    after == ExcelStateAfter(i)
                    written == WrittenBetween(before.cells, after.cells)
                IN  /\ after.row > before.row
                    /\ <<before.row, 1>> \in written
                    /\ \A k \in written :
                        /\ k[1] >= ExcelDataStartRow
                        /\ k[1] >= before.row
                        /\ k[1] < after.row
                        /\ k \notin DOMAIN before.cells
                    /\ \A k \in DOMAIN before.cells :
                        /\ k \in DOMAIN final.cells
                        /\ final.cells[k] = before.cells[k]

C29_Witness ==
    /\ out.fmt = "excel"
    /\ Len(data.v) = 2
    /\ data.v[1][1] = "items"
    /\ Len(data.v[1][2].v) = 2
    /\ data.v[2] = <<"title", S("Test Page")>>
    /\ ExcelStateAfter(1).row = 11
    /\ WrittenBetween(ExcelStateAfter(1).cells, out.doc.cells) = { <<11, 1>>, <<11, 2>> }
    /\ ExcelStateAfter(2).row = 12

-----------------------------------------------------------------------------
(* OutputService.generate_output and the output directory. *)

Formats == {"word", "pdf", "excel", "text"}
BadFormats == {"csv", "TEXT"}
UIDs == {"0a1b2c3d", "deadbeef"}

\* the extension each renderer gives its file
Extension(fmt) ==
    CASE fmt = "word" -> "docx"
      [] fmt = "pdf" -> "pdf"
      [] fmt = "excel" -> "xlsx"
      [] fmt = "text" -> "txt"

\* f"scrape_result_{timestamp}_{unique_id}.{ext}"
Filename(timestamp, unique_id, ext) ==
    "scrape_result_" \o timestamp \o "_" \o unique_id \o "." \o ext

\* the document a renderer builds
Document(d, fmt, p, gen) ==
    CASE fmt = "word" -> WordContent(d, p, gen)
      [] fmt = "pdf" -> PdfContent(d, p, gen)
      [] fmt = "excel" -> ExcelContent(d, p, gen)
      [] fmt = "text" -> TextContent(d, p, gen)

\* mutant: a fifth branch that falls back to the text renderer
GenerateOutput_FallbackToText(d, fmt, p, t, unique_id, fails) ==
    LET f == IF fmt \in Formats THEN fmt ELSE "text"
    IN  IF fails
        THEN [error |-> "OSError: write failed", message |-> "write failed",
              filename |-> "", fmt |-> f, doc |-> <<>>]
        ELSE [error |-> "", message |-> "",
              filename |-> Filename(StrfStamp(t), unique_id, Extension(f)),
              fmt |-> f,
              doc |-> Document(d, f, p, t)]

\* mutant: the text renderer writes the file's unique id as a last line
GenerateOutput_IdInContent(d, fmt, p, t, unique_id, fails) ==
    IF fmt \in Formats
    THEN IF fails
         THEN [error |-> "OSError: write failed", message |-> "write failed",
               filename |-> "", fmt |-> fmt, doc |-> <<>>]
         ELSE [error |-> "", message |-> "",
               filename |-> Filename(StrfStamp(t), unique_id, Extension(fmt)),
               fmt |-> fmt,
               doc |-> IF fmt = "text"
                       THEN TextContent(d, p, t) \o <<unique_id>>
                       ELSE Document(d, fmt, p, t)]
    ELSE [error |-> "ValueError: Unsupported format: " \o fmt,
          message |-> "Unsupported format: " \o fmt,
          filename |-> "", fmt |-> fmt, doc |-> <<>>]

\* generate_output(data, format_type, prompt) called at time t, with the id
\* uuid4 draws; fails: the renderer raises (the exception is logged and
\* re-raised, lines 63-65).  The result is the raised error ("" for none)
\* with its str() as message,
\* the returned filename and the document written under it.
GenerateOutput(d, fmt, p, t, unique_id, fails) ==
    LET timestamp == StrfStamp(t)
    IN  IF fmt \in Formats
        THEN IF fails
             THEN [error |-> "OSError: write failed", message |-> "write failed",
                   filename |-> "", fmt |-> fmt, doc |-> <<>>]
             ELSE [error |-> "", message |-> "",
                   filename |-> Filename(timestamp, unique_id, Extension(fmt)),
                   fmt |-> fmt,
                   doc |-> Document(d, fmt, p, t)]
        ELSE [error |-> "ValueError: Unsupported format: " \o fmt,
              message |-> "Unsupported format: " \o fmt,
              filename |-> "", fmt |-> fmt, doc |-> <<>>]

\* a file of the directory: its modification time and its content; from is
\* the data and prompt of the call that wrote it, which the file system does
\* not keep and which is kept here to compare renders of the same input
EmptyDir == [k \in {} |-> [mtime |-> 0, fmt |-> "", doc |-> <<>>,
                           from |-> [data |-> Null, prompt |-> ""]]]

\* the output directory after the call generate_output(d, _, p) that returned
\* res: the file is created, or overwritten, only when the call returns
FilesAfter(fs, res, t, d, p) ==
    IF res.error = ""
    THEN [k \in (DOMAIN fs) \cup {res.filename} |->
            IF k = res.filename
            THEN [mtime |-> t, fmt |-> res.fmt, doc |-> res.doc,
                  from |-> [data |-> d, prompt |-> p]]
            ELSE fs[k]]
    ELSE fs

-----------------------------------------------------------------------------
(* The service: scrape requests, their background sweeps, direct calls. *)

\* the scrape requests of a behaviour; a request's background task has the
\* request's name, the sweep of a direct call is "direct"
Reqs == {"r1"}
DirectSweep == "direct"
Sweeps == {DirectSweep} \cup Reqs

DefaultDays == 7
DaysArgs == {0, DefaultDays}
TickSteps == {DefaultDays * SecondsPerDay}
\* the clock stays in January 2024
ClockLimit == 31 * SecondsPerDay

DirectData == M(<<<<"title", S("Test Page")>>>>)
LLMReplies == { M(<<<<"title", S("Test Page")>>>>), L(<<S("x")>>) }

Urls == { [scheme |-> "https", host |-> "example.com"],
          [scheme |-> "http", host |-> "localhost:8000"],
          [scheme |-> "https", host |-> "127.0.0.1"] }

\* ScraperService.validate_url
ValidateUrl(url) ==
    /\ url.scheme \in {"http", "https"}
    /\ url.host \notin {"localhost:8000", "127.0.0.1"}

FetchTexts == {"", " ", "Test content"}

\* the texts of the exceptions fetch_content and process_content raise
FetchErrors == {"Failed to fetch URL: HTTP 404"}
LLMErrors == {"OpenAI API key not configured"}

\* mutant: the text is tested as it came
Strip_Nothing(text) == text

\* str.strip() on the texts of the model
Strip(text) == IF text = " " THEN "" ELSE text

\* url and text are the request's URL and the cleaned text the fetcher
\* returned; fetches, llm_calls and renders count the calls of
\* fetch_content, process_content and generate_output; exc is the str() of
\* the exception one of them raised.  The handler keeps no such counters,
\* they are kept here to state what a request has invoked.
IdleReq ==
    [pc |-> "idle", fmt |-> "", prompt |-> "", status |-> 0, detail |-> "",
     filename |-> "", scheduled |-> FALSE,
     url |-> [scheme |-> "", host |-> ""], text |-> "",
     fetches |-> 0, llm_calls |-> 0, renders |-> 0, exc |-> ""]

\* listing is the directory when the sweep read the time, deleted the files
\* the sweep has unlinked, each with its modification time, failed the file
\* whose stat or unlink raised; the code keeps none of them, they are kept
\* here to state the sweep's properties
IdleSweep ==
    [pc |-> "none", days |-> 0, current_time |-> 0, listing |-> <<>>,
     visited |-> {}, target |-> "", deleted |-> <<>>, error |-> "",
     raised |-> FALSE, failed |-> ""]

\* the format of the requests of Spec
ReqFormats == {"text"}

\* files an earlier run of the service left in the directory, written at
\* times 0 and 1
EarlierRun ==
    FilesAfter(
        FilesAfter(EmptyDir,
                   GenerateOutput(DirectData, "text", "Extract the title", 0,
                                  "0a1b2c3d", FALSE),
                   0, DirectData, "Extract the title"),
        GenerateOutput(DirectData, "pdf", "Extract the title", 1, "deadbeef", FALSE),
        1, DirectData, "Extract the title")

\* OutputService(): the directory is kept as it is found (mkdir exist_ok)
Init ==
    /\ now = 1
    /\ ticks = 0
    /\ files \in {EmptyDir, EarlierRun}
    /\ req = [r \in Reqs |-> IdleReq]
    /\ sweep = [s \in Sweeps |-> IdleSweep]
    /\ call = NoCall
    /\ data = M(<<>>)
    /\ prompt = ""
    /\ out = NoOut
    /\ render = <<>>

\* the clock advances
Tick(d) ==
    /\ ticks < MaxTicks
    /\ now + d < ClockLimit
    /\ now' = now + d
    /\ ticks' = ticks + 1
    /\ UNCHANGED <<files, req, sweep, call, data, prompt, out, render>>

\* a direct call of output_service.generate_output
GenerateOutputCall(d, fmt, p, unique_id, fails) ==
    LET res == GenerateOutput(d, fmt, p, now, unique_id, fails)
    IN  /\ Cardinality(DOMAIN files) < MaxFiles
        /\ files' = FilesAfter(files, res, now, d, p)
        /\ call' = [op |-> "generate_output", fmt |-> fmt, error |-> res.error,
                    filename |-> res.filename, changed |-> (files' # files)]
        /\ UNCHANGED <<now, ticks, req, sweep, data, prompt, out, render>>

\* the request answered with an HTTPException(status_code, detail)
Answered(r0, status_code, detail) ==
    [r0 EXCEPT !.pc = "done", !.fmt = "", !.prompt = "",
               !.status = status_code, !.detail = detail]

\* mutant: the message of the handler for unhandled exceptions
ScrapeFailed_Generic(exc) == "An internal server error occurred"

\* line 89: detail=f"Scraping failed: {str(e)}"
ScrapeFailed(exc) == "Scraping failed: " \o exc

\* mutant: the result of validate_url is logged and not acted on
AfterValidation_FetchAnyway(r0, valid, fmt, p) ==
    [r0 EXCEPT !.pc = "fetching", !.fmt = fmt, !.prompt = p]

\* lines 41-49: the request after the URL check
AfterValidation(r0, valid, fmt, p) ==
    IF valid
    THEN [r0 EXCEPT !.pc = "fetching", !.fmt = fmt, !.prompt = p]
    ELSE Answered(r0, 400, "Invalid URL. Please provide a valid HTTP/HTTPS URL.")

\* scrape_webpage up to its first await: URL validation, lines 41-50
ScrapeValidate(r, url, fmt, p) ==
    /\ req[r].pc = "idle"
    /\ req' = [req EXCEPT ![r] =
                AfterValidation([@ EXCEPT !.url = url], ValidateUrl(url), fmt, p)]
    /\ UNCHANGED <<now, ticks, files, sweep, call, data, prompt, out, render>>

\* fetch_content returns or raises exc ("none": it returns), lines 50-60
ScrapeFetched(r, exc, text) ==
    /\ req[r].pc = "fetching"
    /\ req' = [req EXCEPT ![r] =
                LET called == [@ EXCEPT !.fetches = @ + 1]
                IN  IF exc # "none"
                    THEN Answered([called EXCEPT !.exc = exc], 500, ScrapeFailed(exc))
                    ELSE IF Strip(text) = ""
                    THEN Answered([called EXCEPT !.text = text], 400,
                                  "No readable content found on the webpage.")
                    ELSE [called EXCEPT !.pc = "processing", !.text = text]]
    /\ UNCHANGED <<now, ticks, files, sweep, call, data, prompt, out, render>>

\* process_content returns or raises exc; then the render, add_task and the
\* response, lines 60-90, which run without another await
ScrapeProcessed(r, exc, processed_data, unique_id, fails) ==
    /\ req[r].pc = "processing"
    /\ IF exc # "none"
       THEN /\ req' = [req EXCEPT ![r] =
                        Answered([@ EXCEPT !.llm_calls = @ + 1, !.exc = exc],
                                 500, ScrapeFailed(exc))]
            /\ UNCHANGED <<files, sweep>>
       ELSE LET res == GenerateOutput(processed_data, req[r].fmt, req[r].prompt,
                                      now, unique_id, fails)
                called == [req[r] EXCEPT !.llm_calls = @ + 1, !.renders = @ + 1]
            IN  /\ Cardinality(DOMAIN files) < MaxFiles
                /\ files' = FilesAfter(files, res, now, processed_data, req[r].prompt)
                /\ IF res.error # ""
                   THEN /\ req' = [req EXCEPT ![r] =
                                    Answered([called EXCEPT !.exc = res.message],
                                             500, ScrapeFailed(res.message))]
                        /\ UNCHANGED sweep
                   ELSE IF ~IsDict(processed_data)
                   THEN \* ScrapeResponse(data=...) rejects a non-dict: the task
                        \* added at line 71 is dropped with the response
                        /\ req' = [req EXCEPT ![r] =
                                    Answered([called EXCEPT !.filename = res.filename,
                                                            !.scheduled = TRUE],
                                             500,
                                             ScrapeFailed("validation error for ScrapeResponse"))]
                        /\ UNCHANGED sweep
                   ELSE /\ req' = [req EXCEPT ![r] =
                                    [called EXCEPT !.pc = "done", !.fmt = "", !.prompt = "",
                                                   !.status = 200,
                                                   !.filename = res.filename,
                                                   !.scheduled = TRUE,
                                                   !.detail = "Scraping completed successfully"]]
                        /\ sweep' = [sweep EXCEPT ![r] =
                                      [IdleSweep EXCEPT !.pc = "scheduled",
                                                        !.days = DefaultDays]]
    /\ UNCHANGED <<now, ticks, call, data, prompt, out, render>>

\* a direct call of output_service.cleanup_old_files(days)
CleanupCall(days) ==
    /\ sweep[DirectSweep].pc = "none"
    /\ sweep' = [sweep EXCEPT ![DirectSweep] =
                  [IdleSweep EXCEPT !.pc = "scheduled", !.days = days]]
    /\ UNCHANGED <<now, ticks, files, req, call, data, prompt, out, render>>

\* mutant: "except FileNotFoundError" in place of "except Exception"
Catches_OnlyFileNotFound(exc) == exc = "FileNotFoundError"

\* line 403: except Exception catches every error the loop can raise
Catches(exc) == exc \in {"FileNotFoundError", "PermissionError", "OSError"}

\* the sweep after an exception: logged and swallowed, lines 403-404
Aborted(sw, exc) ==
    [sw EXCEPT !.pc = "done", !.target = "",
               !.error = "Error cleaning up files: " \o exc,
               !.raised = ~Catches(exc)]

\* lines 396-397: the time is read and the directory listed
SweepStart(s, err) ==
    /\ sweep[s].pc = "scheduled"
    /\ sweep' = [sweep EXCEPT ![s] =
                  LET started == [@ EXCEPT !.current_time = now,
                                           !.listing = [f \in DOMAIN files |-> files[f].mtime]]
                  IN  IF err # "none"
                      THEN Aborted(started, err)
                      ELSE [started EXCEPT !.pc = "iter"]]
    /\ UNCHANGED <<now, ticks, files, req, call, data, prompt, out, render>>

\* mutant: ">=" in place of ">"
IsOld_AtLeast(file_age, days) == file_age >= days * 24 * 3600

\* mutant: the days not converted to seconds
IsOld_DaysNotSeconds(file_age, days) == file_age > days

\* mutant: the days converted to hours
IsOld_DaysAsHours(file_age, days) == file_age > days * 3600

\* line 400: file_age > (days * 24 * 3600)
IsOld(file_age, days) == file_age > days * 24 * 3600

\* lines 398-400: is_file, stat and the age test of one entry; the entry is
\* one the listing holds or one created since
SweepExamine(s, f, err) ==
    /\ sweep[s].pc = "iter"
    /\ f \in ((DOMAIN sweep[s].listing) \cup (DOMAIN files)) \ sweep[s].visited
    /\ sweep' = [sweep EXCEPT ![s] =
                  IF f \notin DOMAIN files
                  THEN [@ EXCEPT !.visited = @ \cup {f}]
                  ELSE IF err # "none"
                  THEN [Aborted(@, err) EXCEPT !.failed = f]
                  ELSE IF IsOld(sweep[s].current_time - files[f].mtime, sweep[s].days)
                  THEN [@ EXCEPT !.pc = "unlink", !.target = f,
                                 !.visited = @ \cup {f}]
                  ELSE [@ EXCEPT !.visited = @ \cup {f}]]
    /\ UNCHANGED <<now, ticks, files, req, call, data, prompt, out, render>>

\* line 401: file_path.unlink()
SweepUnlink(s, err) ==
    /\ sweep[s].pc = "unlink"
    /\ LET f == sweep[s].target
       IN  IF f \notin DOMAIN files
           THEN /\ sweep' = [sweep EXCEPT ![s] =
                              [Aborted(@, "FileNotFoundError") EXCEPT !.failed = f]]
                /\ UNCHANGED files
           ELSE IF err # "none"
           THEN /\ sweep' = [sweep EXCEPT ![s] = [Aborted(@, err) EXCEPT !.failed = f]]
                /\ UNCHANGED files
           ELSE /\ files' = [k \in (DOMAIN files) \ {f} |-> files[k]]
                /\ sweep' = [sweep EXCEPT ![s] =
                              [@ EXCEPT !.pc = "iter", !.target = "",
                                        !.deleted = [k \in (DOMAIN @) \cup {f} |->
                                                        IF k = f THEN files[f].mtime
                                                        ELSE @[k]]]]
    /\ UNCHANGED <<now, ticks, req, call, data, prompt, out, render>>

\* the loop ends when every listed entry has been visited
SweepFinish(s) ==
    /\ sweep[s].pc = "iter"
    /\ (DOMAIN sweep[s].listing) \subseteq sweep[s].visited
    /\ sweep' = [sweep EXCEPT ![s] = [@ EXCEPT !.pc = "done"]]
    /\ UNCHANGED <<now, ticks, files, req, call, data, prompt, out, render>>

IOErrors == {"none", "PermissionError"}

Next ==
    \/ \E d \in TickSteps : Tick(d)
    \/ \E r \in Reqs, url \in Urls, fmt \in ReqFormats, p \in Prompts :
        ScrapeValidate(r, url, fmt, p)
    \/ \E r \in Reqs, exc \in {"none"} \cup FetchErrors, text \in FetchTexts :
        ScrapeFetched(r, exc, text)
    \/ \E r \in Reqs, exc \in {"none"} \cup LLMErrors, d \in LLMReplies, u \in UIDs,
          fails \in BOOLEAN :
        ScrapeProcessed(r, exc, d, u, fails)
    \/ \E days \in DaysArgs : CleanupCall(days)
    \/ \E s \in Sweeps, err \in IOErrors : SweepStart(s, err)
    \/ \E s \in Sweeps, err \in IOErrors :
        \E f \in (DOMAIN files) \cup (DOMAIN sweep[s].listing) : SweepExamine(s, f, err)
    \/ \E s \in Sweeps, err \in IOErrors : SweepUnlink(s, err)
    \/ \E s \in Sweeps : SweepFinish(s)

Spec == Init /\ [][Next]_vars

-----------------------------------------------------------------------------
(* SpecOutput: direct calls of generate_output on a directory. *)

InitOutput ==
    /\ now = 1
    /\ ticks = 0
    /\ files \in {EmptyDir, EarlierRun}
    /\ req = [r \in Reqs |-> IdleReq]
    /\ sweep = [s \in Sweeps |-> IdleSweep]
    /\ call = NoCall
    /\ data = M(<<>>)
    /\ prompt = ""
    /\ out = NoOut
    /\ render = <<>>

NextOutput ==
    \/ Tick(1)
    \/ \E d \in LLMReplies, fmt \in Formats \cup BadFormats, p \in Prompts,
          u \in UIDs, fails \in BOOLEAN :
        GenerateOutputCall(d, fmt, p, u, fails)

SpecOutput == InitOutput /\ [][NextOutput]_vars

-----------------------------------------------------------------------------
(* Properties of generate_output, checked under SpecOutput. *)

\* C1: generate_output called with a format outside word, pdf, excel, text
\* fails with the unsupported-format error, whatever the data and prompt, and
\* that call creates or changes no file of the output directory.
C1_UnsupportedFormatFails ==
    (call.op = "generate_output" /\ call.fmt \notin {"word", "pdf", "excel", "text"}) =>
        /\ call.error = "ValueError: Unsupported format: " \o call.fmt
        /\ call.filename = ""
        /\ ~call.changed

C1_Witness ==
    /\ call.op = "generate_output"
    /\ call.fmt = "TEXT"
    /\ call.error # ""
    /\ DOMAIN files # {}

\* the files of the directory the text renderer wrote
TextFiles == { f \in DOMAIN files : files[f].fmt = "text" }

\* the Generated: line _generate_text writes in file f
GeneratedLine(f) == "Generated: " \o StrfDateTime(files[f].mtime)

\* files f and g have the same lines but for their Generated: lines
SameButGeneratedLine(f, g) ==
    /\ Len(files[f].doc) = Len(files[g].doc)
    /\ \A i \in 1..Len(files[f].doc) :
        files[f].doc[i] # files[g].doc[i] =>
            /\ files[f].doc[i] = GeneratedLine(f)
            /\ files[g].doc[i] = GeneratedLine(g)

\* C9: two text renders of the same data and prompt write the same content
\* but for the Generated: line, and the same content when that timestamp is
\* the same, whatever was rendered before and whatever the directory holds.
C9_TextRenderIsDeterministic ==
    \A f, g \in TextFiles :
        files[f].from = files[g].from =>
            /\ SameButGeneratedLine(f, g)
            /\ files[f].mtime = files[g].mtime => files[f].doc = files[g].doc

C9_Witness ==
    \E f, g \in TextFiles :
        /\ f # g
        /\ files[f].from = files[g].from
        /\ IsDict(files[f].from.data)
        /\ files[f].mtime # files[g].mtime
        /\ files[f].doc # files[g].doc

-----------------------------------------------------------------------------
(* Properties of the cleanup sweep, checked under Spec. *)

Window(days) == days * 86400

\* the age a sweep gives a file whose modification time is mtime
AgeAt(sw, mtime) == sw.current_time - mtime

C3_SweepErrorsAreSwallowed ==
    \A s \in Sweeps :
        /\ ~sweep[s].raised
        /\ (s \in Reqs /\ sweep[s].pc # "none") =>
            (req[s].pc = "done" /\ req[s].status = 200)

C3_Witness ==
    \E r \in Reqs :
        /\ sweep[r].pc = "done"
        /\ sweep[r].error = "Error cleaning up files: PermissionError"
        /\ req[r].status = 200

\* C4: in every interleaving of sweeps and renders, a step that removes a file
\* is the unlink of a sweep for which the file's age exceeds the retention
\* window; so a file written after the sweep read the time, or any file
\* younger than the window, is never removed by that sweep.
C4_OnlyOldFilesAreRemoved ==
    [][ \A f \in (DOMAIN files) \ (DOMAIN files') :
            \E s \in Sweeps :
                /\ sweep[s].pc = "unlink"
                /\ sweep[s].target = f
                /\ sweep[s].current_time - files[f].mtime > sweep[s].days * 86400
                /\ files[f].mtime < sweep[s].current_time ]_vars

C4_Witness ==
    \E s \in Sweeps :
        /\ DOMAIN sweep[s].deleted # {}
        /\ \E f \in sweep[s].visited :
            /\ f \notin DOMAIN sweep[s].listing
            /\ f \in DOMAIN files
            /\ files[f].mtime >= sweep[s].current_time

\* C28: a sweep handles its files independently: when stat or unlink fails
\* for one file (permission denied, or the file already removed by another
\* sweep), the sweep still deletes every other file whose age exceeds its
\* retention window.
C28_SweepHandlesFilesIndependently ==
    \A s \in Sweeps :
        (sweep[s].pc = "done" /\ sweep[s].failed # "") =>
            \A f \in (DOMAIN sweep[s].listing) \ {sweep[s].failed} :
                AgeAt(sweep[s], sweep[s].listing[f]) > Window(sweep[s].days) =>
                    f \notin DOMAIN files

-----------------------------------------------------------------------------
(* Properties of the scrape endpoint, checked under Spec. *)

\* the request has called none of the fetcher, the LLM and the renderer
NothingInvoked(r) ==
    /\ req[r].fetches = 0
    /\ req[r].llm_calls = 0
    /\ req[r].renders = 0

C15_EmptyContentIsRejected ==
    \A r \in Reqs :
        (req[r].fetches = 1 /\ req[r].exc = "" /\ req[r].text \in {"", " "}) =>
            /\ req[r].pc = "done"
            /\ req[r].status = 400
            /\ req[r].detail = "No readable content found on the webpage."
            /\ req[r].llm_calls = 0
            /\ req[r].renders = 0
            /\ sweep[r].pc = "none"

C15_Witness ==
    \E r \in Reqs :
        /\ req[r].pc = "done"
        /\ req[r].fetches = 1
        /\ req[r].text = " "
        /\ req[r].status = 400

\* C16: the fetcher, the LLM and the renderer are each called at most once
\* for a request, and an exception one of them raises ends the request with
\* status 500 and a message that ends in the exception's text.
C16_FailuresAreNotRetried ==
    \A r \in Reqs :
        /\ req[r].fetches <= 1
        /\ req[r].llm_calls <= 1
        /\ req[r].renders <= 1
        /\ req[r].exc # "" =>
            /\ req[r].pc = "done"
            /\ req[r].status = 500
            /\ req[r].detail = "Scraping failed: " \o req[r].exc
            /\ sweep[r].pc = "none"

C16_Witness ==
    \E r \in Reqs :
        /\ req[r].pc = "done"
        /\ req[r].exc = "write failed"
        /\ req[r].renders = 1
        /\ req[r].status = 500

\* C22: the steps of a request run in the order validation, fetch, LLM,
\* render, schedule sweep, each only after every earlier one has succeeded;
\* the sweep is scheduled only after a successful render and never for a
\* request that ends in an error.
C22_StepsInOrderSweepOnlyOnSuccess ==
    \A r \in Reqs :
        /\ req[r].fetches = 1 => ValidateUrl(req[r].url)
        /\ req[r].llm_calls = 1 =>
            (req[r].fetches = 1 /\ req[r].text \notin {"", " "})
        /\ req[r].renders = 1 => req[r].llm_calls = 1
        /\ req[r].scheduled => (req[r].renders = 1 /\ req[r].filename # "")
        /\ (req[r].pc = "done" /\ req[r].status # 200) =>
            (~req[r].scheduled /\ sweep[r].pc = "none")

\* C26: a request that ends in an error response has written no file: the
\* filename generate_output returned to it is none, also when the LLM reply is
\* JSON that is no mapping; a file is written only by a request that answers
\* 200 and names it.
C26_ErrorResponseLeavesNoFile ==
    \A r \in Reqs :
        (req[r].pc = "done" /\ req[r].status # 200) => req[r].filename = ""

-----------------------------------------------------------------------------
(* SpecConcurrent: generate_output calls taken step by step, as they run  *)
(* when several workers serve requests on the same output directory.      *)

Calls == {"c1", "c2"}

\* str(uuid.uuid4()): 36 characters, lower-case hexadecimal digits and hyphens
Uuid4s ==
    {
      <<"0", "a", "1", "b", "2", "c", "3", "d", "-", "e", "5", "f",
        "6", "-", "4", "a", "7", "b", "-", "8", "c", "9", "d", "-",
        "0", "e", "1", "f", "2", "a", "3", "b", "4", "c", "5", "d">>,
      <<"d", "e", "a", "d", "b", "e", "e", "f", "-", "0", "1", "2",
        "3", "-", "4", "5", "6", "7", "-", "8", "9", "a", "b", "-",
        "c", "d", "e", "f", "0", "1", "2", "3", "4", "5", "6", "7">> }

RECURSIVE Concat(_)
\* the string made of the characters of a sequence
Concat(chars) == IF chars = <<>> THEN "" ELSE chars[1] \o Concat(Tail(chars))

\* mutant: a slice one character longer
UniqueId_NineCharacters(u) == Concat(SubSeq(u, 1, 9))

\* line 49: str(uuid.uuid4())[:8]
UniqueId(u) == Concat(SubSeq(u, 1, 8))

\* uuid and started are the value uuid4 returned and the time of line 48;
\* the code keeps neither, they are kept here to state the filename's form
IdleRender ==
    [pc |-> "idle", fmt |-> "", data |-> Null, prompt |-> "", uuid |-> <<>>,
     started |-> 0, timestamp |-> "", unique_id |-> "", filename |-> "",
     content |-> <<>>, error |-> "", returned |-> ""]

\* a file as open(filepath, 'w') leaves it: created, or truncated, and empty
EmptyFile(t, fmt, d, p) ==
    [mtime |-> t, fmt |-> fmt, doc |-> <<>>, from |-> [data |-> d, prompt |-> p]]

\* mutant: the write also removes the other files of the same format
Written_OneFilePerFormat(fs, name, file) ==
    [k \in { x \in DOMAIN fs : fs[x].fmt # file.fmt } \cup {name} |->
        IF k = name THEN file ELSE fs[k]]

\* the directory after a call has created or written its file
Written(fs, name, file) ==
    [k \in (DOMAIN fs) \cup {name} |-> IF k = name THEN file ELSE fs[k]]

InitConcurrent ==
    /\ now = 1
    /\ ticks = 0
    /\ files = EmptyDir
    /\ req = <<>>
    /\ sweep = <<>>
    /\ call = NoCall
    /\ data = M(<<>>)
    /\ prompt = ""
    /\ out = NoOut
    /\ render = [c \in Calls |-> IdleRender]

\* generate_output lines 48-61: the timestamp and the id are drawn, then the
\* format is dispatched on
RenderBegin(c, d, fmt, p, u) ==
    /\ render[c].pc = "idle"
    /\ render' = [render EXCEPT ![c] =
                    [@ EXCEPT !.pc = IF fmt \in Formats THEN "building" ELSE "failed",
                              !.fmt = fmt, !.data = d, !.prompt = p, !.uuid = u,
                              !.started = now,
                              !.timestamp = StrfStamp(now),
                              !.unique_id = UniqueId(u),
                              !.error = IF fmt \in Formats THEN ""
                                        ELSE "ValueError: Unsupported format: " \o fmt]]
    /\ UNCHANGED <<now, ticks, files, req, sweep, call, data, prompt, out>>

\* the renderer names its file, builds the document (reading the clock again
\* for the Generated line) and opens the file for writing
RenderOpen(c) ==
    /\ render[c].pc = "building"
    /\ LET r == render[c]
           filename == Filename(r.timestamp, r.unique_id, Extension(r.fmt))
       IN  /\ render' = [render EXCEPT ![c] =
                           [@ EXCEPT !.pc = "writing",
                                     !.filename = filename,
                                     !.content = Document(r.data, r.fmt, r.prompt, now)]]
           /\ files' = Written(files, filename, EmptyFile(now, r.fmt, r.data, r.prompt))
    /\ UNCHANGED <<now, ticks, req, sweep, call, data, prompt, out>>

\* the document is written and the filename returned, or the write raises and
\* generate_output logs and re-raises (lines 63-65)
RenderWrite(c, fails) ==
    /\ render[c].pc = "writing"
    /\ LET r == render[c]
       IN  IF fails
           THEN /\ render' = [render EXCEPT ![c] =
                               [@ EXCEPT !.pc = "failed",
                                         !.error = "OSError: write failed"]]
                /\ UNCHANGED files
           ELSE /\ render' = [render EXCEPT ![c] =
                               [@ EXCEPT !.pc = "done", !.returned = r.filename]]
                /\ files' = Written(files, r.filename,
                                    [mtime |-> now, fmt |-> r.fmt, doc |-> r.content,
                                     from |-> [data |-> r.data, prompt |-> r.prompt]])
    /\ UNCHANGED <<now, ticks, req, sweep, call, data, prompt, out>>

NextConcurrent ==
    \/ Tick(1)
    \/ \E c \in Calls, fmt \in Formats \cup BadFormats, p \in Prompts, u \in Uuid4s :
        RenderBegin(c, DirectData, fmt, p, u)
    \/ \E c \in Calls : RenderOpen(c)
    \/ \E c \in Calls, fails \in BOOLEAN : RenderWrite(c, fails)

SpecConcurrent == InitConcurrent /\ [][NextConcurrent]_vars

-----------------------------------------------------------------------------
(* Properties of generate_output taken step by step, checked under        *)
(* SpecConcurrent.                                                         *)

HexLower == {"0", "1", "2", "3", "4", "5", "6", "7", "8", "9",
             "a", "b", "c", "d", "e", "f"}

\* the extension the claims give each format
ClaimedExtension(fmt) ==
    CASE fmt = "word" -> "docx"
      [] fmt = "pdf" -> "pdf"
      [] fmt = "excel" -> "xlsx"
      [] fmt = "text" -> "txt"

\* C11: the filename a successful generate_output returns is
\* scrape_result_<YYYYMMDD>_<HHMMSS>_<8 lower-case hex characters>.<ext> with
\* ext docx, pdf, xlsx, txt for word, pdf, excel, text; the timestamp is the
\* time read before the rendering started, the id the first eight characters
\* of the uuid drawn then, and the file written has that name.
C11_FilenameFixedBeforeRendering ==
    \A c \in Calls :
        render[c].pc = "done" =>
            LET r == render[c]
                id == SubSeq(r.uuid, 1, 8)
            IN  /\ \A i \in 1..8 : id[i] \in HexLower
                /\ Len(r.timestamp) = 15
                /\ r.started < 10 =>
                    r.timestamp = "20240101_00000" \o IntToStr(r.started)
                /\ r.returned = "scrape_result_" \o r.timestamp \o "_" \o Concat(id)
                                    \o "." \o ClaimedExtension(r.fmt)
                /\ r.returned \in DOMAIN files
                /\ files[r.returned].fmt = r.fmt
                /\ files[r.returned].mtime >= r.started

C11_Witness ==
    \E c \in Calls :
        /\ render[c].pc = "done"
        /\ render[c].fmt = "word"
        /\ render[c].returned = "scrape_result_20240101_000001_0a1b2c3d.docx"
        /\ render[c].returned \in DOMAIN files
        /\ files[render[c].returned].mtime = 3

\* a step changes file f: creates it, removes it or gives it another content
Touches(f) ==
    \/ f \notin DOMAIN files
    \/ f \notin DOMAIN files'
    \/ files[f] # files'[f]

\* call c has a filename no other call has
NameIsOwn(c) == \A e \in Calls \ {c} : render[e].filename # render[c].filename

\* C19: render calls do not contend.  A step of a call creates or writes the
\* one file the call named from its own timestamp and id and touches no other
\* file, no file is removed, and a call that returned, and whose name no other
\* call has, finds in its file exactly its own content, in every interleaving.
C19_RendersDoNotContend ==
    /\ [](\A c \in Calls :
            (render[c].pc = "done" /\ NameIsOwn(c)) =>
                /\ render[c].returned \in DOMAIN files
                /\ files[render[c].returned].doc = render[c].content
                /\ files[render[c].returned].from =
                        [data |-> render[c].data, prompt |-> render[c].prompt])
    /\ [][ \A f \in (DOMAIN files) \cup (DOMAIN files') :
            Touches(f) =>
                /\ f \in DOMAIN files'
                /\ \E c \in Calls :
                    /\ render'[c] # render[c]
                    /\ render'[c].filename = f
                    /\ f = Filename(render'[c].timestamp, render'[c].unique_id,
                                    ClaimedExtension(render'[c].fmt))
                    /\ \A e \in Calls \ {c} : render'[e] = render[e] ]_vars

C19_Witness ==
    /\ render["c1"].pc = "done"
    /\ render["c2"].pc = "done"
    /\ render["c1"].started = render["c2"].started
    /\ render["c1"].fmt = render["c2"].fmt
    /\ render["c1"].returned # render["c2"].returned
    /\ files[render["c1"].returned].mtime > files[render["c2"].returned].mtime
    /\ files[render["c1"].returned].doc = render["c1"].content
    /\ files[render["c2"].returned].doc = render["c2"].content

-----------------------------------------------------------------------------
(* SpecApi: the download and status endpoints and the content fetcher,    *)
(* called one at a time on a directory the renderers write to.            *)

\* a requested name as pathlib splits it: Path(name).suffix is the part from
\* the last dot of the name on, "" when there is none
PathName(stem, suffix) == [stem |-> stem, suffix |-> suffix]
PathString(n) == n.stem \o n.suffix

\* the names generate_output can give a file at the times of EarlierRun and Init
RenderedNames ==
    { PathName("scrape_result_" \o StrfStamp(t) \o "_" \o u, "." \o Extension(fmt)) :
        t \in {0, 1}, u \in UIDs, fmt \in Formats }

\* other names a client can ask for: files that something else left in the
\* directory, names of no file, and the directory's own dot entries
OtherNames ==
    { PathName("REPORT", ".PDF"), PathName("export", ".csv"),
      PathName("nonexistent", ".txt"), PathName("README", ""), PathName("..", "") }

DownloadNames == RenderedNames \cup OtherNames

\* a directory with two files no renderer wrote
OtherFiles ==
    [k \in {"REPORT.PDF", "export.csv"} |->
        [mtime |-> 0, fmt |-> "", doc |-> <<>>, from |-> [data |-> Null, prompt |-> ""]]]

\* str.lower() on the suffixes of the model
Lower(suffix) == IF suffix = ".PDF" THEN ".pdf" ELSE suffix

\* filepath.exists(): a file of the directory, or the directory's "." or ".."
Exists(fs, name) == name \in (DOMAIN fs) \cup {".", ".."}

\* mutant: the table without its .pdf entry
MediaType_NoPdfEntry(suffix) ==
    CASE suffix = ".docx" ->
            "application/vnd.openxmlformats-officedocument.wordprocessingml.document"
      [] suffix = ".xlsx" ->
            "application/vnd.openxmlformats-officedocument.spreadsheetml.sheet"
      [] suffix = ".txt" -> "text/plain"
      [] OTHER -> "application/octet-stream"

\* lines 112-120: media_type_map.get(filepath.suffix.lower(), 'application/octet-stream')
MediaType(suffix) ==
    CASE Lower(suffix) = ".docx" ->
            "application/vnd.openxmlformats-officedocument.wordprocessingml.document"
      [] Lower(suffix) = ".pdf" -> "application/pdf"
      [] Lower(suffix) = ".xlsx" ->
            "application/vnd.openxmlformats-officedocument.spreadsheetml.sheet"
      [] Lower(suffix) = ".txt" -> "text/plain"
      [] OTHER -> "application/octet-stream"

\* download_file(filename): what the handler returns or raises.  A
\* FileResponse for a path that is no regular file fails when it is sent
\* (Starlette stats the path then), which the client sees as a 500.
DownloadFile(fs, n) ==
    LET filename == PathString(n)
    IN  IF ~Exists(fs, filename)
        THEN [op |-> "download", filename |-> filename, suffix |-> n.suffix,
              returns |-> "HTTPException", status |-> 404, detail |-> "File not found",
              media_type |-> ""]
        ELSE [op |-> "download", filename |-> filename, suffix |-> n.suffix,
              returns |-> "FileResponse",
              status |-> IF filename \in DOMAIN fs THEN 200 ELSE 500,
              detail |-> "",
              media_type |-> MediaType(n.suffix)]

\* what llm_service.check_availability() gives get_status: a value, or an
\* exception when the check is replaced by one that raises
Available(value) == [raised |-> FALSE, value |-> value, text |-> ""]
CheckRaises(text) == [raised |-> TRUE, value |-> FALSE, text |-> text]

\* what process_content does with the test content: a dict, another JSON
\* value, or an exception
ProcessOutcomes == {"dict", "list", "raises"}

\* check_availability: isinstance(test_result, dict), False on any exception
CheckAvailability(outcome) == Available(outcome = "dict")

CheckOutcomes ==
    { CheckAvailability(o) : o \in ProcessOutcomes } \cup { CheckRaises("Service error") }

\* mutant: an unavailable LLM reported as an unhealthy service
GetStatus_UnhealthyWithoutLLM(check) ==
    IF check.raised
    THEN [op |-> "status", check |-> check, status |-> 500,
          detail |-> "Status check failed: " \o check.text,
          body |-> [status |-> "", llm_available |-> FALSE]]
    ELSE [op |-> "status", check |-> check, status |-> 200, detail |-> "",
          body |-> [status |-> IF check.value THEN "healthy" ELSE "unhealthy",
                    llm_available |-> check.value]]

\* get_status, lines 25-45
GetStatus(check) ==
    IF check.raised
    THEN [op |-> "status", check |-> check, status |-> 500,
          detail |-> "Status check failed: " \o check.text,
          body |-> [status |-> "", llm_available |-> FALSE]]
    ELSE [op |-> "status", check |-> check, status |-> 200, detail |-> "",
          body |-> [status |-> "healthy", llm_available |-> check.value]]

\* cleaned page texts of each length up to two characters more than the
\* maximum: "b", "ab", "aab", ...
CleanedTexts ==
    { [i \in 1..n |-> IF i = n THEN "b" ELSE "a"] : n \in 0..(MaxContent + 2) }

\* lines 61-62: cleaned_text[:self.max_content_length] + "..."
Truncate(cleaned_text, max_content_length) ==
    IF Len(cleaned_text) > max_content_length
    THEN SubSeq(cleaned_text, 1, max_content_length) \o <<".", ".", ".">>
    ELSE cleaned_text

InitApi ==
    /\ now = 1
    /\ ticks = 0
    /\ files \in {EmptyDir, EarlierRun, OtherFiles}
    /\ req = <<>>
    /\ sweep = <<>>
    /\ call = NoCall
    /\ data = M(<<>>)
    /\ prompt = ""
    /\ out = NoOut
    /\ render = <<>>

\* GET /download/{filename}
Download(n) ==
    /\ call' = DownloadFile(files, n)
    /\ UNCHANGED <<now, ticks, files, req, sweep, data, prompt, out, render>>

\* GET /status
Status(check) ==
    /\ call' = GetStatus(check)
    /\ UNCHANGED <<now, ticks, files, req, sweep, data, prompt, out, render>>

\* scraper_service.fetch_content(url) on a page whose cleaned text is given
FetchContent(cleaned_text) ==
    /\ call' = [op |-> "fetch_content", cleaned |-> cleaned_text,
                text |-> Truncate(cleaned_text, MaxContent)]
    /\ UNCHANGED <<now, ticks, files, req, sweep, data, prompt, out, render>>

NextApi ==
    \/ \E fmt \in Formats, p \in Prompts, u \in UIDs :
        GenerateOutputCall(DirectData, fmt, p, u, FALSE)
    \/ \E n \in DownloadNames : Download(n)
    \/ \E check \in CheckOutcomes : Status(check)
    \/ \E cleaned_text \in CleanedTexts : FetchContent(cleaned_text)

SpecApi == InitApi /\ [][NextApi]_vars

-----------------------------------------------------------------------------
(* Properties of the download and status endpoints and of the fetcher,    *)
(* checked under SpecApi.                                                  *)

\* the MIME type the claims give each format
ClaimedMime(fmt) ==
    CASE fmt = "word" ->
            "application/vnd.openxmlformats-officedocument.wordprocessingml.document"
      [] fmt = "pdf" -> "application/pdf"
      [] fmt = "excel" ->
            "application/vnd.openxmlformats-officedocument.spreadsheetml.sheet"
      [] fmt = "text" -> "text/plain"

C17_MissingFileIs404 ==
    (call.op = "download" /\ call.filename \notin DOMAIN files) =>
        /\ call.status = 404
        /\ call.returns # "FileResponse"

\* C18: the status endpoint answers 200 with status "healthy" and
\* llm_available equal to what the availability check returned, true or
\* false; it answers 500, with the exception's text in the message, exactly
\* when the check raises.
C18_StatusReportsAvailability ==
    call.op = "status" =>
        IF call.check.raised
        THEN /\ call.status = 500
             /\ call.detail = "Status check failed: " \o call.check.text
        ELSE /\ call.status = 200
             /\ call.body.status = "healthy"
             /\ call.body.llm_available = call.check.value

C18_Witness ==
    /\ call.op = "status"
    /\ ~call.check.raised
    /\ ~call.check.value
    /\ call.status = 200
    /\ call.body = [status |-> "healthy", llm_available |-> FALSE]

\* C20: the cleaned text the fetcher returns is never longer than the
\* configured maximum length.
C20_ReturnedTextWithinMaximum ==
    call.op = "fetch_content" => Len(call.text) <= MaxContent

-----------------------------------------------------------------------------
(* SpecLifecycle: a scrape request, the sweeps with the service's window   *)
(* and downloads of the file the request's response names, as the clock    *)
(* advances.                                                               *)

\* the times a request can be served at: the start and each clock advance
ServedAt ==
    { 1 + k * (DefaultDays * SecondsPerDay) :
        k \in 0..(ClockLimit \div (DefaultDays * SecondsPerDay)) }

\* the names a response of a text request can carry
ResponseNames ==
    { PathName("scrape_result_" \o StrfStamp(t) \o "_" \o u, "." \o Extension(fmt)) :
        t \in ServedAt, u \in UIDs, fmt \in ReqFormats }

\* GET /download/<filename> with the filename of the response of request r
DownloadNamed(r, n) ==
    /\ req[r].pc = "done"
    /\ req[r].status = 200
    /\ PathString(n) = req[r].filename
    /\ Download(n)

NextLifecycle ==
    \/ \E d \in TickSteps : Tick(d)
    \/ \E r \in Reqs, url \in Urls, fmt \in ReqFormats, p \in Prompts :
        ScrapeValidate(r, url, fmt, p)
    \/ \E r \in Reqs, text \in FetchTexts : ScrapeFetched(r, "none", text)
    \/ \E r \in Reqs, d \in LLMReplies, u \in UIDs :
        ScrapeProcessed(r, "none", d, u, FALSE)
    \/ CleanupCall(DefaultDays)
    \/ \E s \in Sweeps, err \in IOErrors : SweepStart(s, err)
    \/ \E s \in Sweeps, err \in IOErrors :
        \E f \in (DOMAIN files) \cup (DOMAIN sweep[s].listing) : SweepExamine(s, f, err)
    \/ \E s \in Sweeps, err \in IOErrors : SweepUnlink(s, err)
    \/ \E s \in Sweeps : SweepFinish(s)
    \/ \E r \in Reqs, n \in ResponseNames : DownloadNamed(r, n)

SpecLifecycle == Init /\ [][NextLifecycle]_vars

-----------------------------------------------------------------------------
(* Properties of a served file's life, checked under SpecLifecycle. *)

\* file f was removed by a sweep, and its age now is above the service's
\* retention window
RemovedWhenOld(f) ==
    \E s \in Sweeps :
        /\ f \in DOMAIN sweep[s].deleted
        /\ now - sweep[s].deleted[f] > DefaultDays * 86400

\* C27: the file a successful response names stays downloadable while its
\* age is at most the retention window: it is in the directory, as written,
\* unless a sweep removed it at an age above the window, a download of it
\* answers 404 only then, and a download changes no file.
C27_YoungFileStaysDownloadable ==
    /\ [](\A r \in Reqs :
            (req[r].pc = "done" /\ req[r].status = 200) =>
                LET f == req[r].filename
                IN  /\ f \notin DOMAIN files => RemovedWhenOld(f)
                    /\ f \in DOMAIN files => now - files[f].mtime >= 0
                    /\ (call.op = "download" /\ call.filename = f) =>
                        /\ call.status \in {200, 404}
                        /\ call.status = 404 => RemovedWhenOld(f))
    /\ [][call' # call => files' = files]_vars

C27_Witness ==
    \E r \in Reqs :
        /\ req[r].status = 200
        /\ req[r].filename \in DOMAIN files
        /\ now - files[req[r].filename].mtime = DefaultDays * 86400
        /\ call.op = "download"
        /\ call.filename = req[r].filename
        /\ call.status = 200
        /\ sweep[DirectSweep].pc = "done"
        /\ sweep[DirectSweep].error = ""
        /\ req[r].filename \in sweep[DirectSweep].visited
        /\ DOMAIN sweep[DirectSweep].deleted # {}

====
